---- MODULE Spec2Model ----
(***************************************************************************)
(* Model of Bingo.py, the bingo card generator: the main program (parse    *)
(* the arguments, load the words file, build the cards, render, write)     *)
(* and the functions it is made of.                                        *)
(*                                                                         *)
(* A word is a sequence of characters.  A field is a record with the two   *)
(* fields of the namedtuple Field.  A table is a sequence of rows, a row a *)
(* sequence of fields.                                                     *)
(***************************************************************************)
EXTENDS Integers, Sequences, FiniteSets

\* ---------------------------------------------------------------- bounds
\* Largest card size and word count of the card specification (SpecCard).
MaxSize == 2
MaxWords == 4
\* Largest card size, word count and card count of the whole-run
\* specification (Spec).
DeckMaxSize == 2
DeckMaxWords == 2
MaxCards == 2
\* The arguments go down to -NegRange.
NegRange == 1
\* Largest words file of the loading specification (SpecLoad).
MaxLines == 2
MaxLineLen == 2

\* ------------------------------------------------------- program constants
DefaultNumCards == 1
DefaultCardSize == 5

\* ------------------------------------------------------------- characters
Letters == {"a", "b"}
Whitespace == {" ", "\n"}
\* The characters a line of the loading specification is drawn from.
Chars == Letters \cup {" "}

\* Python's None, as the value of a field that carries no word.
None == <<>>

Field(type, value) == [type |-> type, value |-> value]

FIELD_EMPTY == Field("empty", None)
FIELD_BONUS == Field("bonus", None)

\* What izip_longest puts where an iterator is exhausted (None, not a Field).
fillvalue == [type |-> "none", value |-> None]

\* ------------------------------------------------------- pure functions
Min(a, b) == IF a <= b THEN a ELSE b

RECURSIVE lstrip(_)
lstrip(s) ==
    IF s = <<>> THEN s
    ELSE IF Head(s) \in Whitespace THEN lstrip(Tail(s)) ELSE s

RECURSIVE rstrip(_)
rstrip(s) ==
    IF s = <<>> THEN s
    ELSE IF s[Len(s)] \in Whitespace THEN rstrip(SubSeq(s, 1, Len(s) - 1)) ELSE s

\* A strip that forgets the trailing whitespace (the line terminator).
strip_leading(s) == lstrip(s)

\* unicode.strip(): drop the leading and the trailing whitespace.
strip(s) == rstrip(lstrip(s))

\* A sample drawn with replacement.
sample_with_replacement(values, k) == [1..k -> values]

\* random.sample(values, k): every sequence of k distinct elements of values.
sample(values, k) ==
    {q \in [1..k -> values] : \A i, j \in 1..k : i # j => q[i] # q[j]}

\* randrange(start, stop): the values it may return; none when the range is
\* empty (it raises ValueError).
randrange(start, stop) == start..(stop - 1)

\* The number of fields taken for size * 2.
field_total_doubled(size) == size * 2

\* field_total = size ** 2
field_total(size) == size * size

\* collect_random_sublist(values, n): the lists it may return.
collect_random_sublist(values, n) ==
    LET sample_length == Min(n, Cardinality(values))
    IN  sample(values, sample_length)

\* take(chain(normal_fields, repeat(FIELD_EMPTY)), n)
to_fields(values, n) ==
    LET fields(i) == IF i <= Len(values) THEN Field("normal", values[i])
                     ELSE FIELD_EMPTY
    IN  [i \in 1..n |-> fields(i)]

\* A grouping that fills the table column by column.
izip_longest_columns(fields, size) ==
    IF size <= 0 THEN <<>>
    ELSE LET rows == (Len(fields) + size - 1) \div size
         IN  [r \in 1..rows |->
                [c \in 1..size |->
                    LET k == (c - 1) * rows + r
                    IN  IF k <= Len(fields) THEN fields[k] ELSE fillvalue]]

\* izip_longest(*[iter(fields)] * size): size references to one iterator.
\* No iterator, no row; otherwise a row per size items, the last one filled
\* up once the iterator is exhausted.
izip_longest(fields, size) ==
    IF size <= 0 THEN <<>>
    ELSE LET rows == (Len(fields) + size - 1) \div size
         IN  [r \in 1..rows |->
                [c \in 1..size |->
                    LET k == (r - 1) * size + c
                    IN  IF k <= Len(fields) THEN fields[k] ELSE fillvalue]]

\* The fields list of build_table after the optional bonus replacement;
\* bonus_at is the index randrange returned, or -1 without a bonus field.
place_bonus(fields, bonus_at) ==
    IF bonus_at < 0 THEN fields
    ELSE [fields EXCEPT ![bonus_at + 1] = FIELD_BONUS]

\* The template's text of one field.
field_text(field) ==
    IF field.type = "normal" THEN field.value
    ELSE IF field.type = "bonus" THEN <<"Bingo!">>
    ELSE IF field.type = "empty" THEN <<"-">>
    ELSE <<>>

\* render_html(tables): the page, as the cell texts of every row of every table.
render_html(tbls) ==
    [t \in 1..Len(tbls) |->
        [r \in 1..Len(tbls[t]) |->
            [c \in 1..Len(tbls[t][r]) |-> field_text(tbls[t][r][c])]]]

\* ------------------------------------------------------------------ state
VARIABLES
    pc,             \* position in the main program
    argv,           \* the command line
    args,           \* the parsed arguments
    file,           \* the words file: its lines, line terminators kept
    pos,            \* lines load_words has consumed
    words,          \* the frozenset of words (being built while loading)
    tables,         \* the cards built so far
    random_values,  \* build_table's sample of the latest card
    bonus_at,       \* build_table's bonus index of the latest card, or -1
    html,           \* the rendered page
    stdout          \* what has been written to standard output

vars == <<pc, argv, args, file, pos, words, tables, random_values, bonus_at,
          html, stdout>>

\* ------------------------------------------------------------------ inputs
\* The i-th word of the generated words files: i letters.
Word(i) == [j \in 1..i |-> "a"]

\* Its line in the file: indented for even i.
Line(i) == (IF i % 2 = 0 THEN <<" ">> ELSE <<>>) \o Word(i) \o <<"\n">>

\* A words file of n distinct words, one per line.
WordFile(n) == [i \in 1..n |-> Line(i)]

RECURSIVE SeqsUpTo(_, _)
SeqsUpTo(S, n) ==
    IF n = 0 THEN {<<>>}
    ELSE LET shorter == SeqsUpTo(S, n - 1)
         IN  shorter \cup {Append(q, x) : q \in {p \in shorter : Len(p) = n - 1}, x \in S}

\* Every line of at most MaxLineLen characters, with its terminator.
AllLines == {content \o <<"\n">> : content \in SeqsUpTo(Chars, MaxLineLen)}

Defaults ==
    [card_size |-> DefaultCardSize, num_cards |-> DefaultNumCards,
     include_bonus_field |-> FALSE]

InitWith(sizes, counts, files) ==
    /\ pc = "parse"
    /\ argv \in [card_size : sizes, num_cards : counts,
                 include_bonus_field : BOOLEAN]
    /\ args = Defaults
    /\ file \in files
    /\ pos = 0
    /\ words = {}
    /\ tables = <<>>
    /\ random_values = <<>>
    /\ bonus_at = -1
    /\ html = <<>>
    /\ stdout = <<>>

\* The whole run, several cards.
Init ==
    InitWith((0 - NegRange)..DeckMaxSize, (0 - NegRange)..MaxCards,
             {WordFile(n) : n \in 0..DeckMaxWords})

\* One card (the default number of cards), larger cards and word sets.
InitCard ==
    InitWith((0 - NegRange)..MaxSize, {DefaultNumCards},
             {WordFile(n) : n \in 0..MaxWords})

\* Loading: every file of at most MaxLines lines.
InitLoad ==
    InitWith({1}, {DefaultNumCards}, SeqsUpTo(AllLines, MaxLines))

\* ----------------------------------------------------------------- actions
\* parse_args(): the values of the command line, unchecked.
ParseArgs ==
    /\ pc = "parse"
    /\ args' = argv
    /\ pc' = "load"
    /\ UNCHANGED <<argv, file, pos, words, tables, random_values, bonus_at,
                   html, stdout>>

\* One turn of the loop of load_words, consumed by frozenset().
ReadLine ==
    /\ pc = "load"
    /\ pos < Len(file)
    /\ LET line == strip(file[pos + 1])
       IN  words' = IF line # <<>> THEN words \cup {line} ELSE words
    /\ pos' = pos + 1
    /\ UNCHANGED <<pc, argv, args, file, tables, random_values, bonus_at,
                   html, stdout>>

\* A read error that is swallowed: the run goes on with the words read so far.
ReadError_swallowed ==
    /\ pc = "load"
    /\ pc' = "build"
    /\ UNCHANGED <<argv, args, file, pos, words, tables, random_values,
                   bonus_at, html, stdout>>

\* codecs.open or a read raises (file missing or unreadable): the program
\* ends with the exception.
ReadError ==
    /\ pc = "load"
    /\ pc' = "IOError"
    /\ UNCHANGED <<argv, args, file, pos, words, tables, random_values,
                   bonus_at, html, stdout>>

\* The file is exhausted: words is bound to the frozenset.
LoadDone ==
    /\ pc = "load"
    /\ pos = Len(file)
    /\ pc' = "build"
    /\ UNCHANGED <<argv, args, file, pos, words, tables, random_values,
                   bonus_at, html, stdout>>

\* A build that takes the words it used out of the word set.
BuildCard_consuming ==
    /\ pc = "build"
    /\ Len(tables) < args.num_cards
    /\ LET size == args.card_size
           total == field_total(size)
       IN  \E rv \in collect_random_sublist(words, total) :
             \E b \in (IF args.include_bonus_field
                       THEN randrange(0, total) ELSE {-1}) :
               /\ random_values' = rv
               /\ words' = words \ {rv[i] : i \in 1..Len(rv)}
               /\ bonus_at' = b
               /\ tables' = Append(tables,
                     izip_longest(place_bonus(to_fields(rv, total), b), size))
    /\ UNCHANGED <<pc, argv, args, file, pos, html, stdout>>

\* One turn of the list comprehension: list(build_table(words, size, bonus)).
BuildCard ==
    /\ pc = "build"
    /\ Len(tables) < args.num_cards
    /\ LET size == args.card_size
           total == field_total(size)
       IN  \E rv \in collect_random_sublist(words, total) :
             \E b \in (IF args.include_bonus_field
                       THEN randrange(0, total) ELSE {-1}) :
               /\ random_values' = rv
               /\ bonus_at' = b
               /\ tables' = Append(tables,
                     izip_longest(place_bonus(to_fields(rv, total), b), size))
    /\ UNCHANGED <<pc, argv, args, file, pos, words, html, stdout>>

\* build_table raises: randrange(0, 0) has nothing to return (ValueError).
BuildRaise ==
    /\ pc = "build"
    /\ Len(tables) < args.num_cards
    /\ args.include_bonus_field
    /\ randrange(0, field_total(args.card_size)) = {}
    /\ pc' = "ValueError"
    /\ UNCHANGED <<argv, args, file, pos, words, tables, random_values,
                   bonus_at, html, stdout>>

\* xrange(num_cards) is exhausted; render_html(tables).
Render ==
    /\ pc = "build"
    /\ Len(tables) >= args.num_cards
    /\ html' = render_html(tables)
    /\ pc' = "write"
    /\ UNCHANGED <<argv, args, file, pos, words, tables, random_values,
                   bonus_at, stdout>>

\* sys.stdout.write(html)
Write ==
    /\ pc = "write"
    /\ stdout' = Append(stdout, html)
    /\ pc' = "done"
    /\ UNCHANGED <<argv, args, file, pos, words, tables, random_values,
                   bonus_at, html>>

Next ==
    \/ ParseArgs
    \/ ReadLine
    \/ ReadError
    \/ LoadDone
    \/ BuildCard
    \/ BuildRaise
    \/ Render
    \/ Write

\* The loading phase alone.
NextLoad ==
    \/ ParseArgs
    \/ ReadLine
    \/ ReadError
    \/ LoadDone

Spec == Init /\ [][Next]_vars

SpecCard == InitCard /\ [][Next]_vars

SpecLoad == InitLoad /\ [][NextLoad]_vars

\* ------------------------------------------------------------- properties
\* The positions of a table, the fields of a given type, the words it shows.
Positions(t) == UNION {{<<r, c>> : c \in 1..Len(t[r])} : r \in 1..Len(t)}

FieldAt(t, p) == t[p[1]][p[2]]

CountType(t, type) == Cardinality({p \in Positions(t) : FieldAt(t, p).type = type})

NormalWords(t) == {FieldAt(t, p).value : p \in {q \in Positions(t) : FieldAt(t, q).type = "normal"}}

Built == 1..Len(tables)

\* The words are loaded and the arguments parsed: pc is past the load.
Loaded == pc \in {"build", "write", "done", "ValueError"}

\* C1: for a card size s >= 1, every table built has exactly s rows of
\* exactly s fields each, s*s fields in all, and every field is a normal,
\* an empty or the bonus field (never the fill value None).
C1_GridIsSquare ==
    args.card_size >= 1 =>
        \A i \in Built :
            /\ Len(tables[i]) = args.card_size
            /\ \A r \in 1..Len(tables[i]) : Len(tables[i][r]) = args.card_size
            /\ Cardinality(Positions(tables[i])) = args.card_size * args.card_size
            /\ \A p \in Positions(tables[i]) :
                   FieldAt(tables[i], p).type \in {"normal", "empty", "bonus"}

\* A card of size 2 with fewer words than fields and a bonus field is built.
C1_Witness ==
    /\ Len(tables) = 1
    /\ args.card_size = 2
    /\ args.include_bonus_field
    /\ Cardinality(words) = 1

\* C2: every table built holds exactly one bonus field when
\* include_bonus_field is set and none when it is not, whatever the card
\* size and the word set.
C2_ExactlyOneBonus ==
    \A i \in Built :
        CountType(tables[i], "bonus") = (IF args.include_bonus_field THEN 1 ELSE 0)

\* C3: in every table built, the words of the normal fields are pairwise
\* distinct and each is a member of the word set.
C3_NormalWordsDistinct ==
    \A i \in Built :
        /\ NormalWords(tables[i]) \subseteq words
        /\ \A p, q \in Positions(tables[i]) :
               ( /\ p # q
                 /\ FieldAt(tables[i], p).type = "normal"
                 /\ FieldAt(tables[i], q).type = "normal" )
               => FieldAt(tables[i], p).value # FieldAt(tables[i], q).value

\* A card of size 2 drawn from more words than it has fields, three or
\* more of them shown.
C3_Witness ==
    /\ Len(tables) = 1
    /\ args.card_size = 2
    /\ Cardinality(words) >= 4
    /\ CountType(tables[1], "normal") >= 3

\* C4: with fewer words than fields (|W| < s*s), a table without a bonus
\* field shows every word once and s*s - |W| empty fields; with a bonus
\* field it has |W| normal and s*s - |W| - 1 empty fields, or |W| - 1
\* normal and s*s - |W| empty fields.
C4_PaddingCounts ==
    LET total == args.card_size * args.card_size
        n == Cardinality(words)
    IN  (Loaded /\ n < total) =>
          \A i \in Built :
            LET normal == CountType(tables[i], "normal")
                empty == CountType(tables[i], "empty")
            IN  IF ~args.include_bonus_field
                THEN /\ normal = n
                     /\ empty = total - n
                     /\ NormalWords(tables[i]) = words
                ELSE \/ normal = n /\ empty = total - n - 1
                     \/ normal = n - 1 /\ empty = total - n

\* C5: for card size 0, build_table raises no error and the table has no
\* row, with and without a bonus field.
C5_SizeZeroIsEmptyGrid ==
    (Loaded /\ args.card_size = 0) =>
        /\ pc # "ValueError"
        /\ \A i \in Built : tables[i] = <<>>

\* C6: a card size or a number of cards below 1 is rejected before any
\* table is built: the program never builds a table, renders or writes
\* with such a value.
C6_ArgumentsValidated ==
    (Len(tables) > 0 \/ pc \in {"write", "done"}) =>
        (args.card_size >= 1 /\ args.num_cards >= 1)

\* C7: nothing is on standard output unless the whole words file was read
\* and every requested card built; a run that ends in an exception has
\* written nothing.
C7_NoPartialOutput ==
    /\ stdout # <<>> =>
          /\ pc = "done"
          /\ pos = Len(file)
          /\ Len(tables) = (IF args.num_cards >= 0 THEN args.num_cards ELSE 0)
    /\ pc \in {"IOError", "ValueError"} => stdout = <<>>

\* The read fails after a part of the file was consumed.
C7_Witness ==
    /\ pc = "IOError"
    /\ 0 < pos
    /\ pos < Len(file)
    /\ stdout = <<>>

\* line is w with whitespace before and after it.
IsPadded(line, w) ==
    \E a \in 0..Len(line) : \E b \in a..Len(line) :
        /\ SubSeq(line, a + 1, b) = w
        /\ \A k \in 1..a : line[k] \in Whitespace
        /\ \A k \in (b + 1)..Len(line) : line[k] \in Whitespace

IsBlank(line) == \A k \in 1..Len(line) : line[k] \in Whitespace

\* C8: once the file is loaded, no word is empty or has whitespace at
\* either end, every word is a line without its surrounding whitespace,
\* every non-blank line is the padding of a word of the set, and lines
\* that differ only in surrounding whitespace share their word.
C8_WordSetIsStrippedLines ==
    pc = "build" =>
        /\ \A w \in words :
              /\ w # <<>>
              /\ w[1] \notin Whitespace
              /\ w[Len(w)] \notin Whitespace
              /\ \E i \in 1..Len(file) : IsPadded(file[i], w)
        /\ \A i \in 1..Len(file) :
              ~IsBlank(file[i]) =>
                  /\ \E w \in words : IsPadded(file[i], w)
                  /\ \A w1, w2 \in words :
                        (IsPadded(file[i], w1) /\ IsPadded(file[i], w2)) => w1 = w2

\* Two different lines that give the same word.
C8_Witness ==
    /\ pc = "build"
    /\ Len(file) = 2
    /\ file[1] # file[2]
    /\ Cardinality(words) = 1

\* C9: building a card leaves the word set as loaded, every card is
\* sampled from the whole set, and when the loop ends the deck holds
\* exactly num_cards tables (num_cards >= 0).
C9_WordSetFrozen ==
    [][pc = "build" =>
         /\ words' = words
         /\ tables' # tables =>
               /\ Len(tables') = Len(tables) + 1
               /\ Len(random_values') =
                     Min(args.card_size * args.card_size, Cardinality(words))
         /\ (pc' = "write" /\ args.num_cards >= 0) => Len(tables') = args.num_cards
      ]_vars

\* Two cards that show the same word.
C9_Witness ==
    /\ pc = "done"
    /\ Len(tables) = 2
    /\ NormalWords(tables[1]) \cap NormalWords(tables[2]) # {}

\* The flattened sequence build_table grouped into rows: position k holds
\* the bonus field if k is the bonus index, else the k-th sampled word,
\* else an empty field.
ExpectedField(k) ==
    IF k = bonus_at THEN FIELD_BONUS
    ELSE IF k < Len(random_values) THEN Field("normal", random_values[k + 1])
    ELSE FIELD_EMPTY

\* C10: for s >= 1, field k (from 0) of the row-major reading of the
\* latest table is field (k div s, k mod s); the normal fields come in
\* the order of the sample and the empty fields after them, but for the
\* one position the bonus field took.
C10_RowMajorLayout ==
    (args.card_size >= 1 /\ Len(tables) >= 1) =>
        LET s == args.card_size
            t == tables[Len(tables)]
        IN  /\ Len(t) = s
            /\ \A k \in 0..(s * s - 1) :
                   t[(k \div s) + 1][(k % s) + 1] = ExpectedField(k)

\* A card of size 2, three words, the bonus field on the first of them.
C10_Witness ==
    /\ Len(tables) = 1
    /\ args.card_size = 2
    /\ Len(random_values) = 3
    /\ bonus_at = 0

====
